---- MODULE Spec2Model ----
(***************************************************************************)
(* A model of CodeHSConsole (src/src/console/console.js): the output       *)
(* buffer (print, println, quietPrint, quietPrintln, flushQuietOutput,     *)
(* clear) and the typed reader (readLine, readInt, readFloat, readBoolean   *)
(* over readNumber) with its parsing strategies.                           *)
(*                                                                         *)
(* A JavaScript string is a sequence of one-character strings; the two      *)
(* literal pieces of the retry notice and the three domain labels are each  *)
(* one symbol of such a sequence (they are only ever concatenated and       *)
(* compared, never parsed).                                                 *)
(*                                                                         *)
(* A JavaScript value is a record [t, m, e, s, a]:                          *)
(*   t = "undefined" | "null" | "nan" | "inf" | "num" | "bool" | "str"      *)
(*       | "array"                                                          *)
(*   "num":  the number m * 10^e with e <= 0, normalised (see Num);         *)
(*           e = 0 exactly for the integers.  -0 and 0 are one value.       *)
(*           Numbers are exact: the lines of the model are too short for    *)
(*           the rounding of a double to change a parse.                    *)
(*   "inf":  m = 1 for Infinity, m = -1 for -Infinity                       *)
(*   "bool": m = 1 for true, m = 0 for false                                *)
(*   "str":  s is the string;  "array": a is the array of strings           *)
(***************************************************************************)
EXTENDS Integers, Sequences, FiniteSets, TLC

\* ------------------------------------------------------------------------
\* Bounds of the model
\* ------------------------------------------------------------------------

\* longest gateway answer generated over NumChars
MaxRawLen == 3

\* number of public output calls in one behaviour of the output buffer
MaxCalls == 3

\* ------------------------------------------------------------------------
\* JavaScript values
\* ------------------------------------------------------------------------

Val(t, m, e, s, a) == [t |-> t, m |-> m, e |-> e, s |-> s, a |-> a]

Undefined == Val("undefined", 0, 0, <<>>, <<>>)

Null == Val("null", 0, 0, <<>>, <<>>)

NaN == Val("nan", 0, 0, <<>>, <<>>)

Infinity(sign) == Val("inf", sign, 0, <<>>, <<>>)

Bool(b) == Val("bool", IF b THEN 1 ELSE 0, 0, <<>>, <<>>)

StrV(s) == Val("str", 0, 0, s, <<>>)

ArrV(a) == Val("array", 0, 0, <<>>, a)

RECURSIVE Pow10(_)
Pow10(n) == IF n <= 0 THEN 1 ELSE 10 * Pow10(n - 1)

\* the number m * 10^e as a value: a positive exponent is multiplied out and
\* trailing zeros of the fraction are dropped, so equal numbers are equal
\* records
RECURSIVE Num(_, _)
Num(m, e) ==
    IF m = 0 THEN Val("num", 0, 0, <<>>, <<>>)
    ELSE IF e > 0 THEN Num(m * Pow10(e), 0)
    ELSE IF e < 0 /\ m % 10 = 0 THEN Num(m \div 10, e + 1)
    ELSE Val("num", m, e, <<>>, <<>>)

\* Number(v) is NaN: isNaN(true), isNaN(false) and isNaN(null) are false
\* (they convert to 1, 0 and 0)
isNaN(v) == v.t \in {"nan", "undefined"}

\* a == b for two number values: NaN equals nothing, not even NaN
LooseEqNum(a, b) == a.t # "nan" /\ b.t # "nan" /\ a = b

\* ------------------------------------------------------------------------
\* Characters
\* ------------------------------------------------------------------------

LowerLetters ==
    <<"a", "b", "c", "d", "e", "f", "g", "h", "i", "j", "k", "l", "m",
      "n", "o", "p", "q", "r", "s", "t", "u", "v", "w", "x", "y", "z">>

UpperLetters ==
    <<"A", "B", "C", "D", "E", "F", "G", "H", "I", "J", "K", "L", "M",
      "N", "O", "P", "Q", "R", "S", "T", "U", "V", "W", "X", "Y", "Z">>

HexDigits ==
    <<"0", "1", "2", "3", "4", "5", "6", "7", "8", "9",
      "a", "b", "c", "d", "e", "f">>

WhiteSpace == {" ", "\t", "\n", "\r"}

IsUpper(c) == \E i \in 1..26 : UpperLetters[i] = c

toLowerCaseChar(c) ==
    IF IsUpper(c)
    THEN LowerLetters[CHOOSE i \in 1..26 : UpperLetters[i] = c]
    ELSE c

\* String.prototype.toLowerCase
toLowerCase(s) == [i \in 1..Len(s) |-> toLowerCaseChar(s[i])]

IsDigit(c, radix) == \E i \in 1..radix : HexDigits[i] = toLowerCaseChar(c)

DigitValue(c) == (CHOOSE i \in 1..16 : HexDigits[i] = toLowerCaseChar(c)) - 1

Drop(s, n) == SubSeq(s, n + 1, Len(s))

StartsWith(s, p) == Len(s) >= Len(p) /\ SubSeq(s, 1, Len(p)) = p

\* the number of leading characters of s that are in the set cs
RECURSIVE SpanLen(_, _)
SpanLen(s, cs) ==
    IF s # <<>> /\ s[1] \in cs THEN 1 + SpanLen(Tail(s), cs) ELSE 0

DecimalDigitChars == {c \in {HexDigits[i] : i \in 1..16} : IsDigit(c, 10)}

HexDigitChars ==
    {c \in {HexDigits[i] : i \in 1..16} \cup {UpperLetters[i] : i \in 1..6} :
        IsDigit(c, 16)}

DigitSet(radix) == IF radix = 16 THEN HexDigitChars ELSE DecimalDigitChars

\* the value of a string of digits in the given radix (0 for no digits)
RECURSIVE DigitsValue(_, _)
DigitsValue(ds, radix) ==
    IF ds = <<>> THEN 0
    ELSE DigitsValue(SubSeq(ds, 1, Len(ds) - 1), radix) * radix
         + DigitValue(ds[Len(ds)])

\* ------------------------------------------------------------------------
\* The built-in parsers the strategies call
\* ------------------------------------------------------------------------

TrimStart(s) == Drop(s, SpanLen(s, WhiteSpace))

SignOf(s) == IF s # <<>> /\ s[1] = "-" THEN -1 ELSE 1

DropSign(s) == IF s # <<>> /\ s[1] \in {"+", "-"} THEN Tail(s) ELSE s

\* the last step of parseInt: the n leading digits of v are the value, and
\* no digit at all gives NaN
intOfSpan(sign, v, radix, n) ==
    IF n = 0 THEN NaN
    ELSE Num(sign * DigitsValue(SubSeq(v, 1, n), radix), 0)

intOfDigits(sign, v, radix) ==
    intOfSpan(sign, v, radix, SpanLen(v, DigitSet(radix)))

\* a 0x/0X prefix selects radix 16
intOfUnsigned(sign, u) ==
    IF Len(u) >= 2 /\ u[1] = "0" /\ u[2] \in {"x", "X"}
    THEN intOfDigits(sign, Drop(u, 2), 16)
    ELSE intOfDigits(sign, u, 10)

intOfTrimmed(t) == intOfUnsigned(SignOf(t), DropSign(t))

\* parseInt(x) with no radix argument: leading white space is skipped, a
\* sign is read, a 0x/0X prefix selects radix 16, and the longest prefix of
\* digits is the value; no digit at all gives NaN
parseInt(x) == intOfTrimmed(TrimStart(x))

\* the number sign * digits * 10^(expo - nfrac)
floatValue(sign, digits, nfrac, expo) ==
    Num(sign * DigitsValue(digits, 10) * Pow10(expo),
        IF expo < 0 THEN expo - nfrac ELSE 0 - nfrac)

\* the digits after e/E and a sign, as a number; 0 when there is none (the
\* literal then ends before the e)
exponentDigits(sign, ds) ==
    sign * DigitsValue(SubSeq(ds, 1, SpanLen(ds, DecimalDigitChars)), 10)

exponentOf(rest) ==
    IF rest # <<>> /\ rest[1] \in {"e", "E"}
    THEN exponentDigits(SignOf(Tail(rest)), DropSign(Tail(rest)))
    ELSE 0

\* int and frac are the digits before and after the point: "3." and ".5"
\* are literals, "." and "" are not
floatMantissa(sign, int, frac, rest) ==
    IF int = <<>> /\ frac = <<>> THEN NaN
    ELSE floatValue(sign, int \o frac, Len(frac), exponentOf(rest))

floatWithDot(sign, int, afterDot, nf) ==
    IF int = <<>> /\ nf = 0 THEN NaN
    ELSE floatMantissa(sign, int, SubSeq(afterDot, 1, nf), Drop(afterDot, nf))

floatAfterInt(sign, int, rest) ==
    IF rest # <<>> /\ rest[1] = "."
    THEN floatWithDot(sign, int, Tail(rest),
                      SpanLen(Tail(rest), DecimalDigitChars))
    ELSE floatMantissa(sign, int, <<>>, rest)

floatOfDigits(sign, u, ni) == floatAfterInt(sign, SubSeq(u, 1, ni), Drop(u, ni))

floatOfUnsigned(sign, u) ==
    IF StartsWith(u, <<"I", "n", "f", "i", "n", "i", "t", "y">>)
    THEN Infinity(sign)
    ELSE floatOfDigits(sign, u, SpanLen(u, DecimalDigitChars))

floatOfTrimmed(t) == floatOfUnsigned(SignOf(t), DropSign(t))

\* parseFloat(x): leading white space is skipped and the longest prefix that
\* is a decimal literal is the value: a sign, then Infinity or digits with
\* an optional fraction and an optional exponent; no such prefix gives NaN
parseFloat(x) == floatOfTrimmed(TrimStart(x))

\* ------------------------------------------------------------------------
\* Parsing strategies
\* ------------------------------------------------------------------------

\* the parse function readInt passes to readNumber, with the comparison
\* dropped: the integer parse alone decides
readIntParseFnTruncating(x) == parseInt(x)

\* the comparison of the two parses in readInt's parse function
intIfSame(resultInt, resultFloat) ==
    IF LooseEqNum(resultInt, resultFloat) THEN resultInt ELSE NaN

\* the parse function readInt passes to readNumber
readIntParseFn(x) == intIfSame(parseInt(x), parseFloat(x))

\* the comparisons of readBoolean's parse function
booleanOfWord(line) ==
    IF line = <<"t", "r", "u", "e">> \/ line = <<"y", "e", "s">>
    THEN Bool(TRUE)
    ELSE IF line = <<"f", "a", "l", "s", "e">> \/ line = <<"n", "o">>
    THEN Bool(FALSE)
    ELSE NaN

\* the parse function readBoolean passes to readNumber, comparing the line
\* as typed
readBooleanParseFnCaseSensitive(line) == booleanOfWord(line)

\* the parse function readBoolean passes to readNumber (it is only ever
\* applied to a string: readNumber returns on null before parsing)
readBooleanParseFn(line) == booleanOfWord(toLowerCase(line))

TypedReads == {"readInt", "readFloat", "readBoolean"}

\* the parseFn argument of each typed read's call of readNumber
parseFn(op, x) ==
    CASE op = "readInt" -> readIntParseFn(x)
      [] op = "readFloat" -> parseFloat(x)
      [] op = "readBoolean" -> readBooleanParseFn(x)

\* the errorMsgType argument of each typed read's call of readNumber
errorMsgType(op) ==
    CASE op = "readInt" -> "an integer"
      [] op = "readFloat" -> "a float"
      [] op = "readBoolean" -> "a boolean (true/false)"

\* ------------------------------------------------------------------------
\* readNumber
\* ------------------------------------------------------------------------

DEFAULT == Num(0, 0)

INFINITE_LOOP_CHECK == 100

\* the prompt of a retry, with the notice put in front of the prompt of the
\* attempt before
retryPromptAccumulating(str, prompt, msgType) ==
    <<"That was not ", msgType, ". Please try again. ">> \o prompt

\* the prompt readNumber builds for the next attempt
retryPrompt(str, prompt, msgType) ==
    <<"That was not ", msgType, ". Please try again. ">> \o str

Return(value, outcome, prompt, loopCount) ==
    [done |-> TRUE, ret |-> value, outcome |-> outcome,
     prompt |-> prompt, loopCount |-> loopCount]

Retry(prompt, loopCount) ==
    [done |-> FALSE, ret |-> Undefined, outcome |-> "NONE",
     prompt |-> prompt, loopCount |-> loopCount]

\* readNumber's statements after the parse: `parsed` is the value of
\* parseFn(result)
afterParse(parsed, op, str, prompt, loopCount) ==
    IF ~isNaN(parsed) THEN Return(parsed, "ACCEPTED", prompt, loopCount)
    ELSE IF parsed = Null
    THEN Return(DEFAULT, "EXHAUSTED", prompt, loopCount)
    ELSE IF loopCount > INFINITE_LOOP_CHECK
    THEN Return(DEFAULT, "EXHAUSTED", prompt, loopCount)
    ELSE Retry(retryPrompt(str, prompt, errorMsgType(op)), loopCount + 1)

\* the same statements without the count of the retry
afterParseNoCount(parsed, op, str, prompt, loopCount) ==
    IF ~isNaN(parsed) THEN Return(parsed, "ACCEPTED", prompt, loopCount)
    ELSE IF loopCount > INFINITE_LOOP_CHECK
    THEN Return(DEFAULT, "EXHAUSTED", prompt, loopCount)
    ELSE Retry(retryPrompt(str, prompt, errorMsgType(op)), loopCount)

\* the same statements accepting a parsed value only when it is truthy
afterParseTruthy(parsed, op, str, prompt, loopCount) ==
    IF ~isNaN(parsed) /\ parsed # Num(0, 0) /\ parsed # Bool(FALSE)
    THEN Return(parsed, "ACCEPTED", prompt, loopCount)
    ELSE IF loopCount > INFINITE_LOOP_CHECK
    THEN Return(DEFAULT, "EXHAUSTED", prompt, loopCount)
    ELSE Retry(retryPrompt(str, prompt, errorMsgType(op)), loopCount + 1)

\* one iteration that does not test the gateway result for null: the
\* cancellation marker is parsed like a line (and is not a number)
readNumberIterNoCancel(result, op, str, prompt, loopCount) ==
    afterParse(IF result = Null THEN NaN ELSE parseFn(op, result.s),
               op, str, prompt, loopCount)

\* one iteration that forgets to count the retry
readNumberIterNoCount(result, op, str, prompt, loopCount) ==
    IF result = Null THEN Return(Null, "CANCELLED", prompt, loopCount)
    ELSE afterParseNoCount(parseFn(op, result.s), op, str, prompt, loopCount)

\* one iteration that accepts a parsed value only when it is truthy
readNumberIterTruthy(result, op, str, prompt, loopCount) ==
    IF result = Null THEN Return(Null, "CANCELLED", prompt, loopCount)
    ELSE afterParseTruthy(parseFn(op, result.s), op, str, prompt, loopCount)

\* One iteration of readNumber's loop, after the gateway has answered
\* `result` (Null, or StrV of the line): either a return, named by the
\* terminal state of the reader it ends in, or the prompt and loop count of
\* the next iteration.
readNumberIter(result, op, str, prompt, loopCount) ==
    IF result = Null THEN Return(Null, "CANCELLED", prompt, loopCount)
    ELSE afterParse(parseFn(op, result.s), op, str, prompt, loopCount)

\* ------------------------------------------------------------------------
\* Output buffer helpers
\* ------------------------------------------------------------------------

\* String.prototype.split on a one-character separator: the pieces between
\* the separators, so n separators give n + 1 pieces
RECURSIVE split(_, _)
split(s, sep) ==
    LET n == SpanLen(s, {c \in {s[i] : i \in 1..Len(s)} : c # sep})
    IN  IF n = Len(s) THEN <<s>>
        ELSE <<SubSeq(s, 1, n)>> \o split(Drop(s, n + 1), sep)

\* the method bufferedOutputToArray
bufferedOutputToArray(bufferedOutput) ==
    LET bufferedOutputArray == split(bufferedOutput, "\n")
    IN  IF Len(bufferedOutputArray[Len(bufferedOutputArray)]) = 0
        THEN SubSeq(bufferedOutputArray, 1, Len(bufferedOutputArray) - 1)
        ELSE bufferedOutputArray

\* ------------------------------------------------------------------------
\* Inputs
\* ------------------------------------------------------------------------

\* all strings over the characters cs of length at most n
StringsOver(cs, n) == UNION {[1..k -> cs] : k \in 0..n}

toUpperCaseChar(c) ==
    IF \E i \in 1..26 : LowerLetters[i] = c
    THEN UpperLetters[CHOOSE i \in 1..26 : LowerLetters[i] = c]
    ELSE c

\* the spellings of the word w in every mix of letter cases
CaseVariants(w) ==
    {[i \in 1..Len(w) |-> IF i \in U THEN toUpperCaseChar(w[i]) ELSE w[i]] :
        U \in SUBSET (1..Len(w))}

NumChars == {"3", "5", "0", ".", "-"}

BoolWords ==
    {<<"t", "r", "u", "e">>, <<"y", "e", "s">>,
     <<"f", "a", "l", "s", "e">>, <<"n", "o">>}

OtherLines ==
    {<<"a", "b", "c">>, <<"m", "a", "y", "b", "e">>, <<"1">>,
     <<"t", "r", "u", "e", " ">>, <<"y">>, <<"o", "n">>,
     <<"1", "e", "3">>, <<"3", "e", "-", "1">>, <<"0", "x", "1", "A">>,
     <<" ", "3">>, <<"3", "a">>, <<"+", "3">>, <<"3", ".", "5", "0">>,
     <<"I", "n", "f", "i", "n", "i", "t", "y">>, <<"N", "a", "N">>}

\* the lines a scripted gateway may answer with
RawStrings ==
    StringsOver(NumChars, MaxRawLen) \cup OtherLines
        \cup UNION {CaseVariants(w) : w \in BoolWords}

\* the lines the person at the default gateway types
UserLines ==
    {<<"a", "b", "c">>, <<>>, <<"3", ".", "5">>, <<"3", ".", "0">>,
     <<"0">>, <<"-", "5">>, <<"Y", "E", "S">>, <<"n", "o">>,
     <<"m", "a", "y", "b", "e">>}

\* the prompt texts callers pass
Prompts == {<<>>, <<"n", "?">>}

\* the argument lists of a call of a read operation
ReadArgs == {<<>>} \cup {<<p>> : p \in Prompts} \cup {<<<<"n", "?">>, <<>>>>}

\* the texts callers print
Texts == {<<>>, <<"a">>, <<"a", "\n", "b">>, <<"a", "\n", "b", "\n">>}

\* the argument lists of a call of print or println
PrintArgs == {<<>>} \cup {<<t>> : t \in Texts} \cup {<<<<"a">>, <<"a">>>>}

\* ------------------------------------------------------------------------
\* State
\* ------------------------------------------------------------------------

VARIABLES
    internalOutput,        \* this.internalOutput: array of strings
    internalOutputBuffer,  \* this.internalOutputBuffer: string
    promptHandler,         \* this.promptHandler: the prompt gateway
    sink,                  \* the strings this.printHandler was called with
    pc,                    \* "idle", or "reading" inside readNumber's loop
    call,                  \* the latest public call: [op, args]
    str,                   \* readNumber's str
    prompt,                \* readNumber's prompt
    looping,               \* readNumber's looping
    loopCount,             \* readNumber's loopCount
    calls,                 \* gateway invocations made by the latest call
    promptSent,            \* the prompt text of the latest invocation
    lastResult,            \* the gateway's latest answer (Undefined: none yet)
    ret,                   \* what the latest call returned
    outcome,               \* the terminal state of the latest typed read
    raised,                \* the error the latest call raised, or "none"
    ncalls,                \* number of output calls made so far
    printed,               \* text passed to print since the last flush/clear
    log                    \* the output calls since the last flush/clear, in
                           \* call order: [op |-> "print" or "quiet", text]

sessionVars == <<internalOutput, internalOutputBuffer>>

readerVars == <<str, prompt, looping, loopCount>>

gatewayVars == <<calls, promptSent, lastResult>>

vars ==
    <<internalOutput, internalOutputBuffer, promptHandler, sink, pc, call,
      str, prompt, looping, loopCount, calls, promptSent, lastResult, ret,
      outcome, raised, ncalls, printed, log>>

\* the gateway invocation log stops counting here (the loop stops earlier)
MaxLoggedCalls == INFINITE_LOOP_CHECK + 5

\* The default gateway, window.prompt: a person who types one of UserLines
\* or cancels the dialog.
UserGateway == [kind |-> "user", r |-> Null]

\* A gateway installed with configure that gives the same answer to every
\* request.
ConstGateway(r) == [kind |-> "const", r |-> r]

Gateways ==
    {UserGateway, ConstGateway(Null)}
        \cup {ConstGateway(StrV(s)) : s \in RawStrings}

\* the answers promptHandler(promptString) may give
Answers(h) ==
    IF h.kind = "const" THEN {h.r}
    ELSE {Null} \cup {StrV(s) : s \in UserLines}

\* the state after the constructor
Init ==
    /\ internalOutput = <<>>
    /\ internalOutputBuffer = <<>>
    /\ promptHandler = UserGateway
    /\ sink = <<>>
    /\ pc = "idle"
    /\ call = [op |-> "constructor", args |-> <<>>]
    /\ str = <<>>
    /\ prompt = <<>>
    /\ looping = FALSE
    /\ loopCount = 0
    /\ calls = 0
    /\ promptSent = <<>>
    /\ lastResult = Undefined
    /\ ret = Undefined
    /\ outcome = "NONE"
    /\ raised = "none"
    /\ ncalls = 0
    /\ printed = <<>>
    /\ log = <<>>

\* the state after the constructor and configure({prompt: h})
InitConfigured ==
    /\ internalOutput = <<>>
    /\ internalOutputBuffer = <<>>
    /\ promptHandler \in Gateways
    /\ sink = <<>>
    /\ pc = "idle"
    /\ call = [op |-> "configure", args |-> <<>>]
    /\ str = <<>>
    /\ prompt = <<>>
    /\ looping = FALSE
    /\ loopCount = 0
    /\ calls = 0
    /\ promptSent = <<>>
    /\ lastResult = Undefined
    /\ ret = Undefined
    /\ outcome = "NONE"
    /\ raised = "none"
    /\ ncalls = 0
    /\ printed = <<>>
    /\ log = <<>>

\* ------------------------------------------------------------------------
\* Read operations
\* ------------------------------------------------------------------------

\* a public call that throws on its argument count only after one request to
\* the gateway
ArityErrorAfterRequest(op, args) ==
    /\ call' = [op |-> op, args |-> args]
    /\ raised' = "Error"
    /\ ret' = Undefined
    /\ outcome' = "NONE"
    /\ pc' = "idle"
    /\ str' = <<>>
    /\ prompt' = <<>>
    /\ looping' = FALSE
    /\ loopCount' = 0
    /\ calls' = 1
    /\ promptSent' = <<>>
    /\ lastResult' = Undefined

\* a public call that throws on its argument count, before anything else
ArityError(op, args) ==
    /\ call' = [op |-> op, args |-> args]
    /\ raised' = "Error"
    /\ ret' = Undefined
    /\ outcome' = "NONE"
    /\ pc' = "idle"
    /\ str' = <<>>
    /\ prompt' = <<>>
    /\ looping' = FALSE
    /\ loopCount' = 0
    /\ calls' = 0
    /\ promptSent' = <<>>
    /\ lastResult' = Undefined

\* a typed read that would drop the pending buffer when it starts
typedReadClearing(op, args) ==
    /\ pc = "idle"
    /\ IF Len(args) # 1
       THEN ArityError(op, args)
       ELSE /\ call' = [op |-> op, args |-> args]
            /\ raised' = "none"
            /\ ret' = Undefined
            /\ outcome' = "NONE"
            /\ pc' = "reading"
            /\ str' = args[1]
            /\ prompt' = args[1]
            /\ looping' = FALSE
            /\ loopCount' = 0
            /\ calls' = 0
            /\ promptSent' = <<>>
            /\ lastResult' = Undefined
    /\ internalOutputBuffer' = <<>>
    /\ UNCHANGED <<internalOutput, promptHandler, sink, ncalls, printed, log>>

\* readInt, readFloat or readBoolean up to the first gateway request: the
\* argument count check and the set-up of readNumber's loop
typedRead(op, args) ==
    /\ pc = "idle"
    /\ IF Len(args) # 1
       THEN ArityError(op, args)
       ELSE /\ call' = [op |-> op, args |-> args]
            /\ raised' = "none"
            /\ ret' = Undefined
            /\ outcome' = "NONE"
            /\ pc' = "reading"
            /\ str' = args[1]
            /\ prompt' = args[1]
            /\ looping' = FALSE
            /\ loopCount' = 0
            /\ calls' = 0
            /\ promptSent' = <<>>
            /\ lastResult' = Undefined
    /\ UNCHANGED <<sessionVars, promptHandler, sink, ncalls, printed, log>>

readInt == \E args \in ReadArgs : typedRead("readInt", args)

readFloat == \E args \in ReadArgs : typedRead("readFloat", args)

readBoolean == \E args \in ReadArgs : typedRead("readBoolean", args)

\* One iteration of readNumber's loop: readLinePrivate hands the prompt to
\* the gateway, and the answer is classified.
readNumber ==
    /\ pc = "reading"
    /\ \E result \in Answers(promptHandler) :
         \E it \in {readNumberIter(result, call.op, str, prompt, loopCount)} :
             /\ calls' = IF calls < MaxLoggedCalls THEN calls + 1 ELSE calls
             /\ promptSent' = prompt
             /\ lastResult' = result
             /\ pc' = IF it.done THEN "idle" ELSE "reading"
             /\ ret' = it.ret
             /\ outcome' = it.outcome
             /\ prompt' = it.prompt
             /\ looping' = (looping \/ ~it.done)
             /\ loopCount' = it.loopCount
    /\ UNCHANGED <<sessionVars, promptHandler, sink, call, str, raised,
                   ncalls, printed, log>>

\* what readLine returns for the gateway's answer, were an empty line taken
\* for no answer
readLineResultOrNull(result) == IF result = StrV(<<>>) THEN Null ELSE result

\* what readLine returns for the gateway's answer
readLineResult(result) == result

\* readLine: the argument count check and one request to the gateway, whose
\* answer is returned as it is
readLine ==
    /\ pc = "idle"
    /\ \E args \in ReadArgs :
         IF Len(args) # 1
         THEN ArityError("readLine", args)
         ELSE \E result \in Answers(promptHandler) :
                /\ call' = [op |-> "readLine", args |-> args]
                /\ raised' = "none"
                /\ ret' = readLineResult(result)
                /\ outcome' = "NONE"
                /\ pc' = "idle"
                /\ str' = <<>>
                /\ prompt' = <<>>
                /\ looping' = FALSE
                /\ loopCount' = 0
                /\ calls' = 1
                /\ promptSent' = args[1]
                /\ lastResult' = result
    /\ UNCHANGED <<sessionVars, promptHandler, sink, ncalls, printed, log>>

NextRead == readInt \/ readFloat \/ readBoolean \/ readNumber \/ readLine

\* the reader alone, behind any configured gateway
ReadSpec == InitConfigured /\ [][NextRead]_vars

\* the reader at the default gateway; an iteration of readNumber's loop that
\* can run does run (the loop is synchronous code)
FairReadSpec == Init /\ [][NextRead]_vars /\ WF_vars(readNumber)

\* ------------------------------------------------------------------------
\* Output operations
\* ------------------------------------------------------------------------

\* what every output call does to the record of the latest call; an output
\* call is made from outside readNumber's loop
OutputCall(op, args, error, value) ==
    /\ pc = "idle"
    /\ ncalls < MaxCalls
    /\ ncalls' = ncalls + 1
    /\ call' = [op |-> op, args |-> args]
    /\ raised' = error
    /\ ret' = value
    /\ outcome' = "NONE"
    /\ calls' = 0
    /\ promptSent' = <<>>
    /\ lastResult' = Undefined
    /\ UNCHANGED <<promptHandler, pc, readerVars>>

\* print's statements, were the string pushed on internalOutput but not
\* handed to printHandler
printBodySilent(ln) ==
    /\ internalOutput' = Append(internalOutput, ln)
    /\ sink' = sink
    /\ printed' = printed \o ln
    /\ log' = Append(log, [op |-> "print", text |-> ln])
    /\ UNCHANGED internalOutputBuffer

\* print's statements after its argument count check: the string is pushed
\* on internalOutput and handed to printHandler
printBody(ln) ==
    /\ internalOutput' = Append(internalOutput, ln)
    /\ sink' = Append(sink, ln)
    /\ printed' = printed \o ln
    /\ log' = Append(log, [op |-> "print", text |-> ln])
    /\ UNCHANGED internalOutputBuffer

print ==
    \E args \in PrintArgs :
        IF Len(args) # 1
        THEN /\ OutputCall("print", args, "Error", Undefined)
             /\ UNCHANGED <<sessionVars, sink, printed, log>>
        ELSE /\ OutputCall("print", args, "none", Undefined)
             /\ printBody(args[1])

\* println: with no argument ln is set to '' and nothing more is done; with
\* one argument print is called; with more the call throws
println ==
    \E args \in PrintArgs :
        IF Len(args) = 0
        THEN /\ OutputCall("println", args, "none", Undefined)
             /\ UNCHANGED <<sessionVars, sink, printed, log>>
        ELSE IF Len(args) # 1
        THEN /\ OutputCall("println", args, "Error", Undefined)
             /\ UNCHANGED <<sessionVars, sink, printed, log>>
        ELSE /\ OutputCall("println", args, "none", Undefined)
             /\ printBody(args[1] \o <<"\n">>)

\* quietPrint's statements, were the string to replace the buffer
quietPrintBodyReplacing(string) ==
    /\ internalOutputBuffer' = string
    /\ log' = Append(log, [op |-> "quiet", text |-> string])
    /\ UNCHANGED <<internalOutput, sink, printed>>

\* quietPrint's statements: an unset buffer becomes '', then the string is
\* appended
quietPrintBody(string) ==
    /\ internalOutputBuffer' =
           (IF internalOutputBuffer = <<>> THEN <<>> ELSE internalOutputBuffer)
               \o string
    /\ log' = Append(log, [op |-> "quiet", text |-> string])
    /\ UNCHANGED <<internalOutput, sink, printed>>

quietPrint ==
    \E string \in Texts :
        /\ OutputCall("quietPrint", <<string>>, "none", Undefined)
        /\ quietPrintBody(string)

quietPrintln ==
    \E anything \in Texts :
        /\ OutputCall("quietPrintln", <<anything>>, "none", Undefined)
        /\ quietPrintBody(anything \o <<"\n">>)

\* flushQuietOutput: the two fields are defaulted when unset (the buffer
\* when it is '', the array never), then the call of bufferedOutputToArray
\* is evaluated.  That name is written without `this.`, and nothing in the
\* module binds it (a method is no binding in its class body), so evaluating
\* it throws a ReferenceError before concat is called and before the two
\* fields are reset.
flushQuietOutput ==
    /\ OutputCall("flushQuietOutput", <<>>, "ReferenceError", Undefined)
    /\ internalOutputBuffer' =
           (IF internalOutputBuffer = <<>> THEN <<>> ELSE internalOutputBuffer)
    /\ internalOutput' = internalOutput
    /\ printed' = <<>>
    /\ log' = <<>>
    /\ UNCHANGED sink

clear ==
    /\ OutputCall("clear", <<>>, "none", Undefined)
    /\ internalOutput' = <<>>
    /\ internalOutputBuffer' = <<>>
    /\ printed' = <<>>
    /\ log' = <<>>
    /\ UNCHANGED sink

NextOut ==
    print \/ println \/ quietPrint \/ quietPrintln \/ flushQuietOutput
        \/ clear

\* the output buffer alone
OutSpec == Init /\ [][NextOut]_vars

\* number of output calls in a behaviour that mixes output and reads
SessionCalls == 2

\* the gateways of such a behaviour: one that cancels, and one whose answer
\* the number strategies accept and the boolean strategy rejects
SessionGateways == {ConstGateway(Null), ConstGateway(StrV(<<"0">>))}

InitSession == InitConfigured /\ promptHandler \in SessionGateways

NextSession == NextRead \/ (ncalls < SessionCalls /\ NextOut)

\* output calls and reads on one console, behind a configured gateway
SessionSpec == InitSession /\ [][NextSession]_vars

\* the whole console
Next == NextRead \/ NextOut

Spec == Init /\ [][Next]_vars

\* ------------------------------------------------------------------------
\* Properties
\* ------------------------------------------------------------------------

Abc == <<"a", "b", "c">>

\* the latest call is a typed read that passed its argument count check
InTypedRead == call.op \in TypedReads /\ Len(call.args) = 1

\* the latest typed read has returned a value it accepted
Accepted == pc = "idle" /\ raised = "none" /\ outcome = "ACCEPTED"

\* C1: behind a gateway that answers "abc" to every request, readInt makes
\* at most 101 gateway invocations, and returns 0 after exactly 101.
C1_ExhaustedAfter101 ==
    (InTypedRead /\ call.op = "readInt"
        /\ promptHandler = ConstGateway(StrV(Abc)))
    => /\ calls <= 101
       /\ (pc = "idle" => ret = Num(0, 0) /\ calls = 101)

\* C2: in a typed read, once the gateway has answered with the cancellation
\* marker (on the first attempt or after invalid answers) the read is over:
\* it has returned null, not a default, and made one invocation per invalid
\* answer plus the cancelled one, so no invocation after the cancellation;
\* behind a gateway that always cancels that is exactly one invocation.
C2_CancellationStopsRead ==
    (InTypedRead /\ lastResult = Null)
    => /\ pc = "idle"
       /\ raised = "none"
       /\ ret = Null
       /\ outcome = "CANCELLED"
       /\ calls = loopCount + 1
       /\ (promptHandler = ConstGateway(Null) => calls = 1)

\* a readBoolean cancelled on its third request, after two invalid answers
C2_Witness ==
    /\ InTypedRead /\ call.op = "readBoolean"
    /\ lastResult = Null /\ calls = 3 /\ loopCount = 2 /\ pc = "idle"

\* a typed read has ended in one of its three terminal states, with the
\* value of that state, and without raising
C3_Terminal ==
    /\ pc = "idle"
    /\ raised = "none"
    /\ \/ /\ outcome = "ACCEPTED"
          /\ lastResult.t = "str"
          /\ ~isNaN(ret)
          /\ ret = parseFn(call.op, lastResult.s)
       \/ /\ outcome = "CANCELLED"
          /\ lastResult = Null
          /\ ret = Null
       \/ /\ outcome = "EXHAUSTED"
          /\ lastResult.t = "str"
          /\ ret = DEFAULT

\* C3: whatever the gateway answers (lines and cancellations, invalid lines
\* for ever included), a typed read that is under way ends, in exactly one
\* of ACCEPTED with the parsed value, CANCELLED with null or EXHAUSTED with
\* the default, and never by raising.
C3_TypedReadTerminates == (pc = "reading") ~> C3_Terminal

\* a readFloat that exhausted its retries on invalid lines
C3_Witness ==
    /\ InTypedRead /\ call.op = "readFloat"
    /\ C3_Terminal /\ outcome = "EXHAUSTED" /\ loopCount > INFINITE_LOOP_CHECK

\* C4: in a typed read, when the latest answer is a valid line the read has
\* returned at once: its value is the parse of that line, the outcome is
\* ACCEPTED (not the default), and the invocations made are the invalid
\* answers before it plus this one.
C4_ValidAnswerReturned ==
    (InTypedRead /\ lastResult.t = "str"
        /\ ~isNaN(parseFn(call.op, lastResult.s)))
    => /\ Accepted
       /\ ret = parseFn(call.op, lastResult.s)
       /\ calls = loopCount + 1

\* a readInt that accepted "0" as its 101st answer, after 100 invalid ones
C4_Witness ==
    /\ InTypedRead /\ call.op = "readInt"
    /\ lastResult = StrV(<<"0">>) /\ Accepted /\ ret = Num(0, 0)
    /\ calls = 101 /\ loopCount = 100

\* C5: a typed read that exhausted its retries returns the default of its
\* domain: the number 0 for readInt and readFloat, the boolean false for
\* readBoolean.
C5_TypedDefault ==
    (InTypedRead /\ pc = "idle" /\ outcome = "EXHAUSTED")
    => ret = IF call.op = "readBoolean" THEN Bool(FALSE) ELSE Num(0, 0)

C6_Label(op) ==
    CASE op = "readInt" -> "an integer"
      [] op = "readFloat" -> "a float"
      [] op = "readBoolean" -> "a boolean (true/false)"

\* C6: in a typed read the prompt handed to the gateway is the caller's
\* prompt on the first attempt and, on every later attempt, the notice
\* "That was not <label>. Please try again. " followed by the caller's
\* prompt (one notice, however many retries there were).
C6_PromptText ==
    (InTypedRead /\ calls >= 1)
    => promptSent =
         IF calls = 1 THEN call.args[1]
         ELSE <<"That was not ", C6_Label(call.op), ". Please try again. ">>
                  \o call.args[1]

\* the third request of a readBoolean("n?")
C6_Witness ==
    /\ InTypedRead /\ call.op = "readBoolean" /\ call.args = <<<<"n", "?">>>>
    /\ calls = 3
    /\ promptSent = <<"That was not ", "a boolean (true/false)",
                      ". Please try again. ", "n", "?">>

\* C7: readInt accepts a line exactly when parseInt and parseFloat both give
\* a number and the two are equal, and then returns the parseInt value;
\* "3.5" is rejected, "3.0" is accepted as 3, "abc" and "" are rejected.
C7_IntegerStrategy ==
    (InTypedRead /\ call.op = "readInt" /\ lastResult.t = "str")
    => LET s == lastResult.s
           i == parseInt(s)
           f == parseFloat(s)
       IN  /\ Accepted <=> (i.t = "num" /\ f.t = "num" /\ i = f)
           /\ Accepted => ret = i
           /\ s = <<"3", ".", "5">> => ~Accepted
           /\ s = <<"3", ".", "0">> => Accepted /\ ret = Num(3, 0)
           /\ s \in {Abc, <<>>} => ~Accepted

\* readInt asking again after the answer "3.5"
C7_Witness ==
    /\ InTypedRead /\ call.op = "readInt"
    /\ lastResult = StrV(<<"3", ".", "5">>) /\ pc = "reading"

\* the line s spells the word w, in any letter case
C8_Spells(s, w) ==
    /\ Len(s) = Len(w)
    /\ \A i \in 1..Len(w) : s[i] \in {w[i], toUpperCaseChar(w[i])}

\* C8: readBoolean accepts "true"/"yes" in any letter case as true and
\* "false"/"no" in any letter case as false (an accepted value), and
\* accepts no other line.
C8_BooleanStrategy ==
    (InTypedRead /\ call.op = "readBoolean" /\ lastResult.t = "str")
    => LET s == lastResult.s
       IN  IF C8_Spells(s, <<"t", "r", "u", "e">>)
              \/ C8_Spells(s, <<"y", "e", "s">>)
           THEN Accepted /\ ret = Bool(TRUE)
           ELSE IF C8_Spells(s, <<"f", "a", "l", "s", "e">>)
                   \/ C8_Spells(s, <<"n", "o">>)
           THEN Accepted /\ ret = Bool(FALSE)
           ELSE ~Accepted

\* readBoolean returning false for the answer "FaLsE"
C8_Witness ==
    /\ InTypedRead /\ call.op = "readBoolean"
    /\ lastResult = StrV(<<"F", "a", "L", "s", "E">>)
    /\ Accepted /\ ret = Bool(FALSE)

\* C9: flushQuietOutput, called when only print has produced output since
\* the last flush or clear, returns the lines of the printed text: the text
\* split at its newlines, less one trailing empty piece.
C9_FlushReturnsPrintedLines ==
    [][(call'.op = "flushQuietOutput" /\ internalOutputBuffer = <<>>
          /\ printed # <<>>)
       => /\ raised' = "none"
          /\ ret' = ArrV(bufferedOutputToArray(printed))]_vars

\* C10: println() has the effect of print("\n") and println(x) the effect of
\* print(x + "\n"): the line is added to the output and handed to the sink
\* once.
C10_PrintlnIsPrintOfLine ==
    [][(call'.op = "println" /\ Len(call'.args) <= 1)
       => LET line == IF Len(call'.args) = 0 THEN <<"\n">>
                      ELSE call'.args[1] \o <<"\n">>
          IN  /\ raised' = "none"
              /\ internalOutput' = Append(internalOutput, line)
              /\ internalOutputBuffer' = internalOutputBuffer
              /\ sink' = Append(sink, line)]_vars

\* the argument count of a call is one its operation rejects
ArityViolation(c) ==
    \/ c.op = "print" /\ Len(c.args) # 1
    \/ c.op = "println" /\ Len(c.args) >= 2
    \/ c.op \in TypedReads \cup {"readLine"} /\ Len(c.args) # 1

\* C11: print with no or with two or more arguments, println with two or
\* more, and a read with an argument count other than one raise an error
\* and leave the captured output and the pending buffer as they were, hand
\* nothing to the sink and make no request to the gateway.
C11_ArityErrorBeforeAnyEffect ==
    [][(pc = "idle" /\ ArityViolation(call'))
       => /\ raised' = "Error"
          /\ pc' = "idle"
          /\ calls' = 0
          /\ UNCHANGED <<internalOutput, internalOutputBuffer, sink>>]_vars

\* readInt called with a wrong argument count on a console that holds
\* printed and pending output
C11_Witness ==
    /\ call.op = "readInt" /\ Len(call.args) # 1
    /\ raised = "Error"
    /\ internalOutput # <<>>
    /\ internalOutputBuffer # <<>>

\* C12: flushQuietOutput called right after clear returns the empty array.
C12_ClearThenFlushIsEmpty ==
    [][(call.op = "clear" /\ call'.op = "flushQuietOutput")
       => /\ raised' = "none"
          /\ ret' = ArrV(<<>>)]_vars

\* C13: after flushQuietOutput, called when there has been output since the
\* last flush or clear, the captured lines and the pending buffer are both
\* empty.
C13_FlushResets ==
    [][(call'.op = "flushQuietOutput" /\ log # <<>>)
       => /\ internalOutput' = <<>>
          /\ internalOutputBuffer' = <<>>]_vars

\* the text of the entries of l made by the calls of one family, in order
RECURSIVE TextsOf(_, _)
TextsOf(l, family) ==
    IF l = <<>> THEN <<>>
    ELSE IF l[1].op = family THEN <<l[1].text>> \o TextsOf(Tail(l), family)
    ELSE TextsOf(Tail(l), family)

\* the texts of ts one after the other
RECURSIVE Concat(_)
Concat(ts) == IF ts = <<>> THEN <<>> ELSE ts[1] \o Concat(Tail(ts))

\* t is a newline-free string followed by one newline
IsOneLine(t) ==
    /\ t # <<>>
    /\ t[Len(t)] = "\n"
    /\ \A i \in 1..(Len(t) - 1) : t[i] # "\n"

\* every call since the last flush or clear was a quietPrintln of a
\* newline-free string (or a quietPrint of such a line), and they started
\* from an empty console
OnlyQuietLines ==
    /\ log # <<>>
    /\ \A i \in 1..Len(log) : log[i].op = "quiet" /\ IsOneLine(log[i].text)
    /\ internalOutput = <<>>
    /\ internalOutputBuffer = Concat(TextsOf(log, "quiet"))

\* C14: after quietPrintln(x1), ..., quietPrintln(xn) of newline-free
\* strings on an empty console, flushQuietOutput returns [x1, ..., xn],
\* empty strings included.
C14_QuietRoundTrip ==
    [][(call'.op = "flushQuietOutput" /\ OnlyQuietLines)
       => /\ raised' = "none"
          /\ ret' = ArrV([i \in 1..Len(log) |->
                             SubSeq(log[i].text, 1, Len(log[i].text) - 1)])]_vars

\* C15: print(x) hands x to the sink once and println(x) hands x + newline
\* to the sink once, after what was handed over before; quietPrint,
\* quietPrintln, flushQuietOutput, clear and every step of a read hand
\* nothing to the sink.
C15_SinkOncePerPrint ==
    [][IF pc = "idle" /\ call'.op = "print" /\ Len(call'.args) = 1
       THEN sink' = Append(sink, call'.args[1])
       ELSE IF pc = "idle" /\ call'.op = "println" /\ Len(call'.args) = 1
       THEN sink' = Append(sink, call'.args[1] \o <<"\n">>)
       ELSE IF pc = "idle" /\ call'.op = "println" /\ Len(call'.args) = 0
       THEN TRUE
       ELSE sink' = sink]_vars

\* print("a") then println("a\nb") reached the sink in that order
C15_Witness ==
    /\ sink = <<<<"a">>, <<"a", "\n", "b", "\n">>>>
    /\ call.op = "println"

\* C16: readLine called with one argument makes one request to the gateway,
\* with the caller's prompt, and returns the gateway's answer as it is,
\* without a retry.
C16_ReadLineIsOneRoundTrip ==
    (call.op = "readLine" /\ Len(call.args) = 1)
    => /\ pc = "idle"
       /\ raised = "none"
       /\ calls = 1
       /\ promptSent = call.args[1]
       /\ ret = lastResult
       /\ ~looping

\* readLine returning the empty line the gateway answered
C16_Witness ==
    /\ call.op = "readLine" /\ Len(call.args) = 1
    /\ call.args[1] = <<"n", "?">>
    /\ lastResult = StrV(<<>>)
    /\ ret = StrV(<<>>)

\* C17 as stated: the pending buffer never holds a newline.
C17_NoNewlineInBuffer ==
    \A i \in 1..Len(internalOutputBuffer) : internalOutputBuffer[i] # "\n"

\* C17, amended: the pending buffer is the text of the quietPrint and
\* quietPrintln calls as it was passed, newlines included: quietPrint(s)
\* appends s, quietPrintln(s) appends s and a newline, clear empties the
\* buffer, and print and println leave it as it is.
C17_BufferHoldsQuietText ==
    [][IF call'.op = "quietPrint"
       THEN internalOutputBuffer' = internalOutputBuffer \o call'.args[1]
       ELSE IF call'.op = "quietPrintln"
       THEN internalOutputBuffer'
                = internalOutputBuffer \o call'.args[1] \o <<"\n">>
       ELSE IF call'.op = "clear"
       THEN internalOutputBuffer' = <<>>
       ELSE IF call'.op \in {"print", "println"}
       THEN internalOutputBuffer' = internalOutputBuffer
       ELSE TRUE]_vars

\* the pending buffer holding a complete line and the start of the next
C17_Witness ==
    /\ internalOutputBuffer = <<"a", "\n", "a">>
    /\ call.op = "quietPrint"

\* C18: a public operation raises only on a wrong argument count.
C18_OnlyArityErrors ==
    raised # "none" => (raised = "Error" /\ ArityViolation(call))

\* the latest step is one of a read operation
ReadStep == call'.op \in TypedReads \cup {"readLine"}

\* C19: every step of readLine, readInt, readFloat and readBoolean leaves
\* the captured lines and the pending buffer as they are; a read starts
\* with no request made, readLine makes one, and every attempt of a typed
\* read makes one more.
C19_ReadsLeaveSessionState ==
    [][ReadStep
       => /\ UNCHANGED <<internalOutput, internalOutputBuffer>>
          /\ IF pc = "reading"
             THEN calls' = calls + 1 /\ calls' = loopCount + 1
             ELSE calls' = IF call'.op = "readLine" /\ Len(call'.args) = 1
                           THEN 1 ELSE 0]_vars

\* a read that gave up after its retries, on a console that holds printed
\* and pending output
C19_Witness ==
    /\ call.op \in TypedReads
    /\ outcome = "EXHAUSTED"
    /\ calls > INFINITE_LOOP_CHECK
    /\ internalOutput # <<>>
    /\ internalOutputBuffer # <<>>

\* C20: flushQuietOutput, called after calls of both families on an empty
\* console, returns the strings of the print and println calls in call
\* order, followed by the lines of the quietPrint and quietPrintln calls in
\* call order.
C20_PrintEntriesThenQuietLines ==
    [][(/\ call'.op = "flushQuietOutput"
        /\ TextsOf(log, "print") # <<>>
        /\ TextsOf(log, "quiet") # <<>>
        /\ internalOutput = TextsOf(log, "print")
        /\ internalOutputBuffer = Concat(TextsOf(log, "quiet")))
       => /\ raised' = "none"
          /\ ret' = ArrV(TextsOf(log, "print")
                         \o bufferedOutputToArray(
                                Concat(TextsOf(log, "quiet"))))]_vars

====
